---- MODULE Spec2Model ----
(***************************************************************************)
(* State-machine model of the AXP2101 power-management driver             *)
(* (src/axp2101.py).  The PMIC is a bank of 8-bit registers behind an I2C *)
(* bus; the driver owns a two-byte transaction buffer and talks to the    *)
(* chip through three bus transactions (write, write-then-read of one     *)
(* byte, write-then-read of two bytes), each made while holding the bus   *)
(* lock of the I2CDevice context manager.                                 *)
(***************************************************************************)
EXTENDS Integers, Sequences, FiniteSets, TLC

VARIABLES
    regs,     \* the PMIC's register file: address -> byte
    buf,      \* self._buffer, the driver's 2-byte transaction buffer
    busLock,  \* holder of the I2C bus lock: "free", "drv" or "other"
    pc,       \* position of the driver inside the running call
    call,     \* the running (or last) call and its arguments
    loc,      \* local variables of the running call
    status,   \* "running", or how the last call ended
    ret,      \* value returned by the last call: <<>> is None, <<x>> is x
    log,      \* bus operations issued by the running (or last) call
    pre,      \* register file when the running (or last) call started
    prev,     \* the last completed call of a method that writes to the chip
    ncalls,   \* calls of methods that write to the chip started so far
    other,    \* position of a second user of the same bus
    hwevents  \* power-key events the chip latched: .pending since the last
              \* poll ended, .seen between the poll before and the last
              \* poll's read

vars == <<regs, buf, busLock, pc, call, loc, status, ret, log, pre, prev,
          ncalls, other, hwevents>>

----------------------------------------------------------------------------
(* Bounds of the model *)

MaxCalls == 1

----------------------------------------------------------------------------
(* Python's integer operators on the (at most 16-bit) values the driver uses *)

Bit(x, i) == (x \div (2 ^ i)) % 2

FromBits(b) ==
    b[0] + 2 * b[1] + 4 * b[2] + 8 * b[3] + 16 * b[4] + 32 * b[5] + 64 * b[6]
    + 128 * b[7] + 256 * b[8] + 512 * b[9] + 1024 * b[10] + 2048 * b[11]
    + 4096 * b[12] + 8192 * b[13] + 16384 * b[14] + 32768 * b[15]

\* x & y
BitAnd(x, y) == FromBits([i \in 0..15 |-> Bit(x, i) * Bit(y, i)])

\* x | y
BitOr(x, y) == FromBits([i \in 0..15 |-> IF Bit(x, i) + Bit(y, i) > 0 THEN 1 ELSE 0])

\* x & ~y  (Python's ~y is -y-1: every bit of y inverted, at any width)
BitAndNot(x, y) == FromBits([i \in 0..15 |-> Bit(x, i) * (1 - Bit(y, i))])

\* x << n
ShiftLeft(x, n) == x * (2 ^ n)

\* x >> n
ShiftRight(x, n) == x \div (2 ^ n)

----------------------------------------------------------------------------
(* The register file *)

Byte == 0..255

\* The registers the driver addresses (0x35 is the second byte of the
\* two-byte read at 0x34).
Addrs == {\h00, \h01, \h10, \h18, \h30, \h34, \h35, \h41, \h49, \hA4,
          \h90, \h91, \h92, \h93, \h94, \h95, \h96, \h97, \h99, \h9A}

\* Faulty variant of SetBits: the mask replaces the byte instead of being
\* merged into it.
SetBits_Overwrite(old, bitmask, value) == IF value THEN bitmask ELSE 0

\* The byte _set_bit_in_register computes from the byte it read.
SetBits(old, bitmask, value) ==
    IF value THEN BitOr(old, bitmask) ELSE BitAndNot(old, bitmask)

\* Registers whose bits are event latches: power-key status 0x49.
LatchRegs == {\h49}

\* What a latch register holds after `value` is written to it: writing 1 to
\* a bit clears the latch, writing 0 leaves it.
LatchWrite(old, value) == BitAndNot(old, value)

\* The register file after the chip received the bytes (register, value) of
\* self._device.write(self._buffer).
ChipWrite(r, register, value) ==
    IF register \in LatchRegs
    THEN [r EXCEPT ![register] = LatchWrite(r[register], value)]
    ELSE [r EXCEPT ![register] = value]

\* Register file after the three read-modify-writes of a constructor that
\* returned.
Construct(r) ==
    LET r1 == ChipWrite(r, \h41, SetBits(r[\h41], \h0C, TRUE))
        r2 == ChipWrite(r1, \h30, SetBits(r1[\h30], \h01, TRUE))
    IN  ChipWrite(r2, \h90, SetBits(r2[\h90], \h0F, TRUE))

\* The bytearray self._buffer holding bytes b0 and b1.
Buffer(b0, b1) == [i \in 0..1 |-> IF i = 0 THEN b0 ELSE b1]

NoCall == [op |-> "none", num |-> 0, voltage |-> 0]

NoLoc == [reg_volt |-> 0, reg_enable |-> 0, bitmask |-> 0, value |-> FALSE,
          step_volt |-> 0]

\* The driver right after construction on a chip whose registers held r.
Constructed(r) ==
    /\ regs = Construct(r)
    /\ buf = Buffer(\h90, Construct(r)[\h90])
    /\ busLock = "free"
    /\ pc = "idle"
    /\ call = NoCall
    /\ loc = NoLoc
    /\ status = "ok"
    /\ ret = <<>>
    /\ log = <<>>
    /\ pre = Construct(r)
    /\ prev = [op |-> "none", num |-> 0, voltage |-> 0, status |-> "ok", ret |-> <<>>]
    /\ ncalls = 0
    /\ other = "idle"
    /\ hwevents = [pending |-> FALSE, seen |-> FALSE]

----------------------------------------------------------------------------
(* Entering and leaving a driver call *)

\* Methods that only read the chip.
Getters == {"none", "get_ldo", "get_dldo", "is_battery_connected",
            "battery_status", "battery_voltage"}

\* The record kept of the call that has just ended.
Ended ==
    IF call.op \in Getters
    THEN prev
    ELSE [op |-> call.op, num |-> call.num, voltage |-> call.voltage,
          status |-> status, ret |-> ret]

\* There is a driver object: the constructor has returned.
Alive == ~(call.op = "__init__" /\ status # "ok")

\* Entry into a method that writes to the chip.
Enter(op, num, voltage) ==
    /\ pc = "idle"
    /\ Alive
    /\ ncalls' = ncalls + 1
    /\ prev' = Ended
    /\ call' = [op |-> op, num |-> num, voltage |-> voltage]
    /\ pre' = regs
    /\ log' = <<>>

\* Entry into a regulator setter.
Begin(op, num, voltage) == ncalls < MaxCalls /\ Enter(op, num, voltage)

\* Entry into a method that only reads the chip.
BeginGet(op, num) ==
    /\ pc = "idle"
    /\ Alive
    /\ ncalls' = ncalls
    /\ prev' = Ended
    /\ call' = [op |-> op, num |-> num, voltage |-> 0]
    /\ pre' = regs
    /\ log' = <<>>

\* return r, the buffer holding b
Return(r, b) == pc' = "idle" /\ status' = "ok" /\ ret' = r /\ buf' = b

\* raise exc, the buffer holding b
Raise(exc, b) == pc' = "idle" /\ status' = exc /\ ret' = <<>> /\ buf' = b

\* Entry into _read_register8(register) or _read_register14(register): the
\* register number is put in the buffer, the transaction is the next step.
CallRead(register, label, b) ==
    pc' = label /\ status' = "running" /\ ret' = <<>> /\ buf' = Buffer(register, b[1])

\* Entry into _write_register8(register, value): both bytes are put in the
\* buffer, the transaction is the next step.
CallWrite8(register, value, label, b) ==
    pc' = label /\ status' = "running" /\ ret' = <<>> /\ buf' = Buffer(register, value)

\* Entry into _set_bit_in_register(register, ...): the register number is
\* put in the buffer, the read-modify-write follows.
CallSetBit(register, b) ==
    pc' = "set_bit_read" /\ status' = "running" /\ ret' = <<>>
    /\ buf' = Buffer(register, b[1])

BusOp(kind, register, value, ok) ==
    [kind |-> kind, register |-> register, value |-> value, ok |-> ok]

\* The bus may fail any transaction (NACK, timeout, lost arbitration).
CanFail == TRUE

----------------------------------------------------------------------------------------------------------------------------------------
(* The bus transactions of the register I/O primitives.  Each is made with *)
(* the bus lock held (with self._device), taken and released around it; a  *)
(* transaction the bus fails raises OSError out of the primitive and out   *)
(* of the call.                                                             *)

\* _write_register8: self._device.write(self._buffer) sends the register
\* number and the value
WriteRegister8 ==
    /\ busLock = "free"
    /\ busLock' = "free"
    /\ regs' = ChipWrite(regs, buf[0], buf[1])
    /\ log' = Append(log, BusOp("write", buf[0], buf[1], TRUE))

\* _read_register8: write_then_readinto(buffer, buffer, out_end=1, in_end=1)
\* sends the register number and reads one byte into buffer[0], which the
\* primitive returns
ReadRegister8 ==
    /\ busLock = "free"
    /\ busLock' = "free"
    /\ regs' = regs
    /\ log' = Append(log, BusOp("read", buf[0], regs[buf[0]], TRUE))

\* The buffer as _read_register8's transaction leaves it.
Received8 == Buffer(regs[buf[0]], buf[1])

\* _read_register14: write_then_readinto(buffer, buffer, out_end=1) sends
\* the register number and reads two consecutive registers into the buffer
ReadRegister14 ==
    /\ busLock = "free"
    /\ busLock' = "free"
    /\ regs' = regs
    /\ log' = Append(log, BusOp("read", buf[0], regs[buf[0]], TRUE))

\* The buffer as _read_register14's transaction leaves it.
Received14 == Buffer(regs[buf[0]], regs[buf[0] + 1])

\* Faulty variant of Compose14: the first byte is not masked with 0x3F.
Compose14_NoMask(b0, b1) == BitOr(ShiftLeft(b0, 8), b1)

\* The value _read_register14 composes from the two bytes in the buffer.
Compose14(b0, b1) == BitOr(ShiftLeft(BitAnd(b0, \h3F), 8), b1)

\* The transaction of a one-transaction primitive fails: the OSError leaves
\* the with block, which releases the bus, and the call.
BusError(kind) ==
    /\ CanFail
    /\ busLock = "free"
    /\ busLock' = "free"
    /\ regs' = regs
    /\ log' = Append(log, BusOp(kind, buf[0], IF kind = "write" THEN buf[1] ELSE 0, FALSE))
    /\ loc' = loc
    /\ Raise("OSError", buf)

\* The (register, bitmask) pairs the constructor sets, in its order: power
\* key interrupts, battery voltage ADC, ALDO1-4 enable.
InitBits == <<(<<\h41, \h0C>>), (<<\h30, \h01>>), (<<\h90, \h0F>>)>>

\* Faulty variant of SetBitRead: the read is made as a transaction of its
\* own and the bus is released before the write.
SetBitRead_Unlocked ==
    /\ pc = "set_bit_read"
    /\ busLock = "free"
    /\ regs' = regs
    /\ buf' = Buffer(buf[0], SetBits(regs[buf[0]], loc.bitmask, loc.value))
    /\ log' = Append(log, BusOp("read", buf[0], regs[buf[0]], TRUE))
    /\ busLock' = "free"
    /\ pc' = "set_bit_write" /\ status' = "running" /\ ret' = <<>>
    /\ UNCHANGED <<call, loc, pre, prev, ncalls, other, hwevents>>

\* Faulty variant of SetBitRead: a failed read is tried again.
SetBitRead_Retry ==
    /\ pc = "set_bit_read"
    /\ busLock = "free"
    /\ regs' = regs
    /\ \/ /\ buf' = Buffer(buf[0], SetBits(regs[buf[0]], loc.bitmask, loc.value))
          /\ log' = Append(log, BusOp("read", buf[0], regs[buf[0]], TRUE))
          /\ busLock' = "drv"
          /\ pc' = "set_bit_write" /\ status' = "running" /\ ret' = <<>>
       \/ /\ CanFail
          /\ log' = Append(log, BusOp("read", buf[0], 0, FALSE))
          /\ busLock' = "free"
          /\ UNCHANGED <<buf, pc, status, ret>>
    /\ UNCHANGED <<call, loc, pre, prev, ncalls, other, hwevents>>

\* _set_bit_in_register, first half: take the bus lock, read the register
\* into buf[1] and set or clear the mask bits in the buffer.
SetBitRead ==
    /\ pc = "set_bit_read"
    /\ busLock = "free"
    /\ regs' = regs
    /\ \/ /\ buf' = Buffer(buf[0], SetBits(regs[buf[0]], loc.bitmask, loc.value))
          /\ log' = Append(log, BusOp("read", buf[0], regs[buf[0]], TRUE))
          /\ busLock' = "drv"
          /\ pc' = "set_bit_write" /\ status' = "running" /\ ret' = <<>>
       \/ /\ CanFail
          /\ log' = Append(log, BusOp("read", buf[0], 0, FALSE))
          /\ busLock' = "free"
          /\ Raise("OSError", buf)
    /\ UNCHANGED <<call, loc, pre, prev, ncalls, other, hwevents>>

\* _set_bit_in_register, second half: write the buffer back and release
\* the bus lock.
SetBitWrite ==
    /\ pc = "set_bit_write"
    /\ busLock = "drv"
    /\ busLock' = "free"
    /\ \/ /\ regs' = ChipWrite(regs, buf[0], buf[1])
          /\ log' = Append(log, BusOp("write", buf[0], buf[1], TRUE))
          /\ IF call.op = "__init__" /\ loc.stage < Len(InitBits)
             THEN /\ loc' = [bitmask |-> InitBits[loc.stage + 1][2], value |-> TRUE,
                             stage |-> loc.stage + 1]
                  /\ CallSetBit(InitBits[loc.stage + 1][1], buf)
             ELSE loc' = loc /\ Return(<<>>, buf)
       \/ /\ CanFail
          /\ regs' = regs
          /\ log' = Append(log, BusOp("write", buf[0], buf[1], FALSE))
          /\ loc' = loc
          /\ Raise("OSError", buf)
    /\ UNCHANGED <<call, pre, prev, ncalls, other, hwevents>>

----------------------------------------------------------------------------
(* Regulators: __set_ldo / __get_ldo (ALDO1-4, BLDO1-2 as num 0..5) and    *)
(* __set_dldo / __get_dldo (DLDO1, DLDO2 as num 1..2)                       *)

LdoRegVolt(num) == num + \h92

LdoEnableBit(num) == ShiftLeft(1, num)

LdoRegValue(voltage) == (voltage - 500) \div 100

LdoMaxVolt == 3500

DldoRegVolt(num) == IF num = 1 THEN \h99 ELSE \h9A

\* Faulty variant of DldoMaxVolt: DLDO1 takes the ALDO/BLDO maximum.
DldoMaxVolt_Ldo(num) == IF num = 1 THEN 3500 ELSE 1400

DldoMaxVolt(num) == IF num = 1 THEN 3400 ELSE 1400

DldoRegEnable(num) == IF num = 1 THEN \h90 ELSE \h91

DldoEnableBit(num) == IF num = 1 THEN \h80 ELSE \h01

DldoStepVolt(num) == IF num = 1 THEN 100 ELSE 50

\* Faulty variant of DldoRegValue: the 50 mV step of DLDO2 is forgotten.
DldoRegValue_Step100(num, voltage) == (voltage - 500) \div 100

DldoRegValue(num, voltage) == (voltage - 500) \div DldoStepVolt(num)

\* Faulty variant of SetVoltage: only 0 mV disables the output.
SetVoltage_NonZero(voltage, reg_volt, reg_value, reg_enable, reg_enable_bit) ==
    IF voltage > 0
    THEN /\ loc' = [reg_volt |-> reg_volt, reg_enable |-> reg_enable,
                    bitmask |-> reg_enable_bit, value |-> TRUE, step_volt |-> 0]
         /\ CallWrite8(reg_volt, reg_value, "write_volt", buf)
    ELSE /\ loc' = [reg_volt |-> reg_volt, reg_enable |-> reg_enable,
                    bitmask |-> reg_enable_bit, value |-> FALSE, step_volt |-> 0]
         /\ CallSetBit(reg_enable, buf)

\* Faulty variant of SetVoltage: the output is enabled without the code
\* having been written.
SetVoltage_EnableOnly(voltage, reg_volt, reg_value, reg_enable, reg_enable_bit) ==
    /\ loc' = [reg_volt |-> reg_volt, reg_enable |-> reg_enable,
               bitmask |-> reg_enable_bit, value |-> voltage >= 500, step_volt |-> 0]
    /\ CallSetBit(reg_enable, buf)

\* The rest of a setter once its arguments are validated: write the code and
\* then set the enable bit, or (below 500 mV) clear the enable bit.
SetVoltage(voltage, reg_volt, reg_value, reg_enable, reg_enable_bit) ==
    IF voltage >= 500
    THEN /\ loc' = [reg_volt |-> reg_volt, reg_enable |-> reg_enable,
                    bitmask |-> reg_enable_bit, value |-> TRUE, step_volt |-> 0]
         /\ CallWrite8(reg_volt, reg_value, "write_volt", buf)
    ELSE /\ loc' = [reg_volt |-> reg_volt, reg_enable |-> reg_enable,
                    bitmask |-> reg_enable_bit, value |-> FALSE, step_volt |-> 0]
         /\ CallSetBit(reg_enable, buf)

\* __set_ldo(num, voltage) up to its first bus transaction
SetLdo(num, voltage) ==
    /\ Begin("set_ldo", num, voltage)
    /\ IF 0 <= num /\ num <= 5
       THEN IF 0 <= voltage /\ voltage <= LdoMaxVolt
            THEN SetVoltage(voltage, LdoRegVolt(num), LdoRegValue(voltage),
                            \h90, LdoEnableBit(num))
            ELSE loc' = NoLoc /\ Raise("ValueError", buf)
       ELSE loc' = NoLoc /\ Raise("ValueError", buf)
    /\ UNCHANGED <<regs, busLock, other, hwevents>>

\* __set_dldo(num, voltage) up to its first bus transaction
SetDldo(num, voltage) ==
    /\ Begin("set_dldo", num, voltage)
    /\ IF 1 <= num /\ num <= 2
       THEN IF 0 <= voltage /\ voltage <= DldoMaxVolt(num)
            THEN SetVoltage(voltage, DldoRegVolt(num), DldoRegValue(num, voltage),
                            DldoRegEnable(num), DldoEnableBit(num))
            ELSE loc' = NoLoc /\ Raise("ValueError", buf)
       ELSE loc' = NoLoc /\ Raise("ValueError", buf)
    /\ UNCHANGED <<regs, busLock, other, hwevents>>

\* self._write_register8(reg_volt, reg_value) of __set_ldo and __set_dldo,
\* followed by the entry into _set_bit_in_register(reg_enable, bit, True)
WriteVolt ==
    /\ pc = "write_volt"
    /\ \/ WriteRegister8 /\ loc' = loc /\ CallSetBit(loc.reg_enable, buf)
       \/ BusError("write")
    /\ UNCHANGED <<call, pre, prev, ncalls, other, hwevents>>

\* __get_ldo(num) up to its first bus transaction
GetLdo(num) ==
    /\ BeginGet("get_ldo", num)
    /\ IF 0 <= num /\ num <= 5
       THEN /\ loc' = [reg_volt |-> LdoRegVolt(num), reg_enable |-> \h90,
                       bitmask |-> LdoEnableBit(num), value |-> FALSE,
                       step_volt |-> 100]
            /\ CallRead(\h90, "read_enable", buf)
       ELSE loc' = NoLoc /\ Raise("ValueError", buf)
    /\ UNCHANGED <<regs, busLock, other, hwevents>>

\* __get_dldo(num) up to its first bus transaction
GetDldo(num) ==
    /\ BeginGet("get_dldo", num)
    /\ IF 1 <= num /\ num <= 2
       THEN /\ loc' = [reg_volt |-> DldoRegVolt(num),
                       reg_enable |-> DldoRegEnable(num),
                       bitmask |-> DldoEnableBit(num), value |-> FALSE,
                       step_volt |-> DldoStepVolt(num)]
            /\ CallRead(DldoRegEnable(num), "read_enable", buf)
       ELSE loc' = NoLoc /\ Raise("ValueError", buf)
    /\ UNCHANGED <<regs, busLock, other, hwevents>>

\* The rest of a getter once the enable register has been read as v.
AfterReadEnable(v, b) ==
    /\ loc' = loc
    /\ IF BitAnd(v, loc.bitmask) # 0
       THEN CallRead(loc.reg_volt, "read_volt", b)
       ELSE Return(<<0>>, b)

\* reg90 = self._read_register8(0x90) / reg_enable_val = ...(reg_enable)
ReadEnable ==
    /\ pc = "read_enable"
    /\ \/ ReadRegister8 /\ AfterReadEnable(Received8[0], Received8)
       \/ BusError("read")
    /\ UNCHANGED <<call, pre, prev, ncalls, other, hwevents>>

\* The voltage a getter returns for the code v it read.
DecodeVolt(v, b) == loc' = loc /\ Return(<<v * loc.step_volt + 500>>, b)

\* reg_value = self._read_register8(reg_volt); return reg_value * step + 500
ReadVolt ==
    /\ pc = "read_volt"
    /\ \/ ReadRegister8 /\ DecodeVolt(Received8[0], Received8)
       \/ BusError("read")
    /\ UNCHANGED <<call, pre, prev, ncalls, other, hwevents>>

----------------------------------------------------------------------------
(* Specification of the regulator interface: a constructed driver and a    *)
(* sequence of setter and getter calls.                                     *)

\* Register contents found by the constructor: every register holds b, the
\* two enable registers hold e90 and e91.
ChipState(b, e90, e91) ==
    [a \in Addrs |-> IF a = \h90 THEN e90 ELSE IF a = \h91 THEN e91 ELSE b]

ChipStates == {ChipState(255, 255, 255), ChipState(7, \h40, \hFE)}

\* Arguments the callers pass.
LdoNums == 0..5

DldoNums == 1..2

LdoVoltages == {-1, 0, 499, 500, 550, 1800, 3500, 3501}

DldoVoltages == {-1, 0, 499, 500, 525, 1400, 1450, 3400, 3500}

Init == \E r \in ChipStates : Constructed(r)

Next ==
    \/ \E num \in LdoNums, voltage \in LdoVoltages : SetLdo(num, voltage)
    \/ \E num \in DldoNums, voltage \in DldoVoltages : SetDldo(num, voltage)
    \/ \E num \in LdoNums : GetLdo(num)
    \/ \E num \in DldoNums : GetDldo(num)
    \/ WriteVolt
    \/ SetBitRead
    \/ SetBitWrite
    \/ ReadEnable
    \/ ReadVolt

Spec == Init /\ [][Next]_vars

----------------------------------------------------------------------------
(* The regulator table of the interface, as the claims state it: channel   *)
(* c is <<"ldo", 0..5>> (ALDO1-4, BLDO1-2) or <<"dldo", 1..2>>.             *)

Setters == {"set_ldo", "set_dldo"}

RegulatorGetters == {"get_ldo", "get_dldo"}

ChannelOf(c) == <<IF c.op \in {"set_ldo", "get_ldo"} THEN "ldo" ELSE "dldo", c.num>>

channelMax(c) == IF c[1] = "ldo" THEN 3500 ELSE IF c[2] = 1 THEN 3400 ELSE 1400

channelStep(c) == IF c[1] = "dldo" /\ c[2] = 2 THEN 50 ELSE 100

enableReg(c) == IF c[1] = "dldo" /\ c[2] = 2 THEN 145 ELSE 144

enableMask(c) ==
    IF c[1] = "dldo"
    THEN (IF c[2] = 1 THEN 128 ELSE 1)
    ELSE CASE c[2] = 0 -> 1 [] c[2] = 1 -> 2 [] c[2] = 2 -> 4
           [] c[2] = 3 -> 8 [] c[2] = 4 -> 16 [] c[2] = 5 -> 32

codeReg(c) == IF c[1] = "dldo" THEN 152 + c[2] ELSE 146 + c[2]

Channels == {<<"ldo", n>> : n \in 0..5} \cup {<<"dldo", n>> : n \in 1..2}

\* Single-bit arithmetic on a byte x and a one-bit mask m.
IsSet(x, m) == (x \div m) % 2 = 1

WithBit(x, m) == IF IsSet(x, m) THEN x ELSE x + m

WithoutBit(x, m) == IF IsSet(x, m) THEN x - m ELSE x

\* What the interface says a getter returns for channel c on registers r.
channelVolts(r, c) ==
    IF IsSet(r[enableReg(c)], enableMask(c))
    THEN r[codeReg(c)] * channelStep(c) + 500
    ELSE 0

Done == pc = "idle"

SetterCall == call.op \in Setters

\* The voltage argument of the running setter is in the channel's range.
InRange == 0 <= call.voltage /\ call.voltage <= channelMax(ChannelOf(call))

Code(v, c) == (v - 500) \div channelStep(c)

\* C1: for every channel C and every voltage v in 500..channelMax(C) with
\* v - 500 a multiple of channelStep(C), a getter call on C that returns
\* after a successful setLdo(C, v), with no other writing call in between,
\* returns exactly v, whatever the registers held before.
C1_RoundTrip ==
    (/\ Done
     /\ call.op \in RegulatorGetters
     /\ status = "ok"
     /\ prev.op \in Setters
     /\ prev.status = "ok"
     /\ ChannelOf(prev) = ChannelOf(call)
     /\ 500 <= prev.voltage
     /\ prev.voltage <= channelMax(ChannelOf(prev))
     /\ (prev.voltage - 500) % channelStep(ChannelOf(prev)) = 0)
    => ret = <<prev.voltage>>

\* DLDO2, disabled and holding another code before, reads back 1400 mV.
C1_Witness ==
    /\ Done
    /\ call = [op |-> "get_dldo", num |-> 2, voltage |-> 0]
    /\ status = "ok"
    /\ prev = [op |-> "set_dldo", num |-> 2, voltage |-> 1400,
               status |-> "ok", ret |-> <<>>]
    /\ ret = <<1400>>

\* C2: for every channel C and every v in 0..499, setLdo(C, v) never writes
\* C's voltage-code register (the stored code keeps its value); when it
\* succeeds its bus operations are exactly the read of C's enable register
\* and the write-back of that byte with C's enable bit cleared, and the
\* registers are those before the call with that bit cleared, the same for
\* every v in 0..499; a following getter call on C returns 0.
C2_Disable ==
    /\ (SetterCall /\ 0 <= call.voltage /\ call.voltage <= 499) =>
         LET c == ChannelOf(call)
             old == pre[enableReg(c)]
             new == WithoutBit(old, enableMask(c))
         IN  /\ \A i \in 1..Len(log) :
                   ~(log[i].kind = "write" /\ log[i].register = codeReg(c))
             /\ regs[codeReg(c)] = pre[codeReg(c)]
             /\ (Done /\ status = "ok") =>
                   /\ log = <<BusOp("read", enableReg(c), old, TRUE),
                              BusOp("write", enableReg(c), new, TRUE)>>
                   /\ regs = [pre EXCEPT ![enableReg(c)] = new]
                   /\ ~IsSet(regs[enableReg(c)], enableMask(c))
    /\ (/\ Done
        /\ call.op \in RegulatorGetters
        /\ status = "ok"
        /\ prev.op \in Setters
        /\ prev.status = "ok"
        /\ ChannelOf(prev) = ChannelOf(call)
        /\ 0 <= prev.voltage
        /\ prev.voltage <= 499)
       => ret = <<0>>

\* BLDO2 set to 499 mV: disabled, its code register still holding 255, and
\* read back as 0.
C2_Witness ==
    /\ Done
    /\ call = [op |-> "get_ldo", num |-> 5, voltage |-> 0]
    /\ status = "ok"
    /\ prev = [op |-> "set_ldo", num |-> 5, voltage |-> 499,
               status |-> "ok", ret |-> <<>>]
    /\ ret = <<0>>
    /\ regs[151] = 255
    /\ regs[144] = 223

\* C3: for every channel C, setLdo(C, v) with v > channelMax(C) or v < 0
\* fails with ValueError (InvalidArgument) before any bus operation: the
\* call has ended, its log of bus operations is empty and every register
\* holds the value it held before the call.
C3_OutOfRange ==
    (SetterCall /\ ~InRange) =>
        /\ Done
        /\ status = "ValueError"
        /\ log = <<>>
        /\ regs = pre

\* DLDO1 refused 3500 mV, a voltage the ALDO and BLDO channels accept.
C3_Witness ==
    /\ Done
    /\ call = [op |-> "set_dldo", num |-> 1, voltage |-> 3500]
    /\ status = "ValueError"

C9_CodeBeforeEnable ==
    (SetterCall /\ InRange /\ call.voltage >= 500) =>
        LET c == ChannelOf(call)
            code == Code(call.voltage, c)
            old == pre[enableReg(c)]
            ops == <<BusOp("write", codeReg(c), code, TRUE),
                     BusOp("read", enableReg(c), old, TRUE),
                     BusOp("write", enableReg(c), WithBit(old, enableMask(c)), TRUE)>>
        IN  /\ Len(log) <= 3
            /\ \A i \in 1..Len(log) :
                  /\ log[i].kind = ops[i].kind
                  /\ log[i].register = ops[i].register
                  /\ log[i].ok => log[i] = ops[i]
            /\ (Done /\ status = "ok") =>
                  /\ log = ops
                  /\ regs[codeReg(c)] = code
                  /\ IsSet(regs[enableReg(c)], enableMask(c))
            /\ (~IsSet(old, enableMask(c)) /\ IsSet(regs[enableReg(c)], enableMask(c)))
                  => regs[codeReg(c)] = code
            /\ (call = [op |-> "set_ldo", num |-> 0, voltage |-> 1800]
                /\ Done /\ status = "ok") =>
                  /\ log[1] = BusOp("write", 146, 13, TRUE)
                  /\ log[3].register = 144
                  /\ IsSet(log[3].value, 1)

\* BLDO1, disabled before, set to 1800 mV: code 13 in register 0x96, bit
\* 0x10 of register 0x90 set afterwards.
C9_Witness ==
    /\ Done
    /\ call = [op |-> "set_ldo", num |-> 4, voltage |-> 1800]
    /\ status = "ok"
    /\ ~IsSet(pre[144], 16)
    /\ IsSet(regs[144], 16)
    /\ pre[150] = 7
    /\ regs[150] = 13

\* C10: a setter call on channel C, whatever its voltage and however it
\* ends, changes no register but C's enable and voltage-code registers, and
\* in C's enable register no bit but C's enable bit; so every other
\* channel D keeps its enable bit and its code, and a getter returns for D
\* what it would have returned before the call.
C10_Independent ==
    /\ SetterCall =>
         LET c == ChannelOf(call)
         IN  /\ \A a \in Addrs \ {enableReg(c), codeReg(c)} : regs[a] = pre[a]
             /\ WithoutBit(regs[enableReg(c)], enableMask(c))
                  = WithoutBit(pre[enableReg(c)], enableMask(c))
             /\ IsSet(regs[144], 64) = IsSet(pre[144], 64)
             /\ \A d \in Channels \ {c} :
                   /\ IsSet(regs[enableReg(d)], enableMask(d))
                        = IsSet(pre[enableReg(d)], enableMask(d))
                   /\ regs[codeReg(d)] = pre[codeReg(d)]
                   /\ channelVolts(regs, d) = channelVolts(pre, d)
    /\ (Done /\ call.op \in RegulatorGetters /\ status = "ok") =>
         /\ ret = <<channelVolts(regs, ChannelOf(call))>>
         /\ regs = pre

\* DLDO1 enabled in register 0x90 (0x4F becomes 0xCF) while the ALDO bits
\* and bit 0x40 of the same register stay as they were.
C10_Witness ==
    /\ Done
    /\ call = [op |-> "set_dldo", num |-> 1, voltage |-> 500]
    /\ status = "ok"
    /\ pre[144] = 79
    /\ regs[144] = 207

----------------------------------------------------------------------------
(* Power key: power_key_was_pressed polls the latched key events of        *)
(* register 0x49 and clears them.                                           *)

MaxPolls == 2

\* Faulty variant of AfterKeyRead: only a short press is cleared.
AfterKeyRead_ShortOnly(v, b) ==
    LET short_press == BitAnd(v, \h08) # 0
        long_press == BitAnd(v, \h04) # 0
    IN  /\ loc' = [short_press |-> short_press, long_press |-> long_press]
        /\ IF short_press
           THEN CallWrite8(\h49, \h0C, "key_clear", b)
           ELSE Return(<<short_press, long_press>>, b)

\* The rest of power_key_was_pressed once register 0x49 has been read as v.
AfterKeyRead(v, b) ==
    LET short_press == BitAnd(v, \h08) # 0
        long_press == BitAnd(v, \h04) # 0
    IN  /\ loc' = [short_press |-> short_press, long_press |-> long_press]
        /\ IF short_press \/ long_press
           THEN CallWrite8(\h49, \h0C, "key_clear", b)
           ELSE Return(<<short_press, long_press>>, b)

\* power_key_was_pressed up to its first bus transaction
PowerKeyWasPressed ==
    /\ ncalls < MaxPolls
    /\ Enter("power_key_was_pressed", 0, 0)
    /\ loc' = NoLoc
    /\ CallRead(\h49, "key_read", buf)
    /\ UNCHANGED <<regs, busLock, other, hwevents>>

\* reg_val = self._read_register8(0x49)
KeyRead ==
    /\ pc = "key_read"
    /\ \/ ReadRegister8 /\ AfterKeyRead(Received8[0], Received8)
       \/ BusError("read")
    /\ hwevents' = [pending |-> hwevents.pending /\ status' # "ok",
                    seen |-> hwevents.pending]
    /\ UNCHANGED <<call, pre, prev, ncalls, other>>

\* self._write_register8(0x49, 0x0C); return (short_press, long_press)
KeyClear ==
    /\ pc = "key_clear"
    /\ \/ WriteRegister8 /\ loc' = loc /\ Return(<<loc.short_press, loc.long_press>>, buf)
       \/ BusError("write")
    /\ hwevents' = [hwevents EXCEPT !.pending = @ /\ status' # "ok"]
    /\ UNCHANGED <<call, pre, prev, ncalls, other>>

\* The chip latches a key event: bit 0x08 (short press) or 0x04 (long press)
\* of register 0x49 is set by the hardware.
KeyEvent(bit) ==
    /\ regs' = [regs EXCEPT ![\h49] = BitOr(@, bit)]
    /\ hwevents' = [hwevents EXCEPT !.pending = TRUE]
    /\ UNCHANGED <<buf, busLock, pc, call, loc, status, ret, log, pre, prev,
                   ncalls, other>>

\* Register contents found by the constructor: register 0x49 holds b.
KeyChipState(b) == [a \in Addrs |-> IF a = \h49 THEN b ELSE 0]

InitKey == \E b \in Byte : Constructed(KeyChipState(b))

NextKey ==
    \/ PowerKeyWasPressed
    \/ KeyRead
    \/ KeyClear
    \/ \E bit \in {\h08, \h04} : KeyEvent(bit)

SpecKey == InitKey /\ [][NextKey]_vars

PollCall == call.op = "power_key_was_pressed"

\* C4: power_key_was_pressed reads register 0x49 and returns (bit 0x08 set,
\* bit 0x04 set) of the byte read; when neither bit is set it returns
\* (false, false) after that single read, and when either is set it issues
\* exactly one further operation, the write of 0x0C to register 0x49; a
\* poll that follows a successful poll, with no key event latched between
\* the end of the first and its own read, returns (false, false).
C4_PollConsumes ==
    PollCall =>
        /\ Len(log) <= 2
        /\ Len(log) >= 1 => (log[1].kind = "read" /\ log[1].register = 73)
        /\ Len(log) = 2 =>
              /\ log[1].ok
              /\ IsSet(log[1].value, 8) \/ IsSet(log[1].value, 4)
              /\ log[2].kind = "write" /\ log[2].register = 73 /\ log[2].value = 12
        /\ (Done /\ status = "ok") =>
              /\ Len(log) >= 1
              /\ ret = <<IsSet(log[1].value, 8), IsSet(log[1].value, 4)>>
              /\ (~IsSet(log[1].value, 8) /\ ~IsSet(log[1].value, 4)) =>
                    (ret = <<FALSE, FALSE>> /\ Len(log) = 1)
              /\ (IsSet(log[1].value, 8) \/ IsSet(log[1].value, 4)) =>
                    (Len(log) = 2 /\ log[2].ok)
              /\ (prev.op = "power_key_was_pressed" /\ prev.status = "ok"
                  /\ ~hwevents.seen) => ret = <<FALSE, FALSE>>

\* A poll that reported a short press, followed at once by a poll that
\* reports nothing.
C4_Witness ==
    /\ Done
    /\ PollCall
    /\ status = "ok"
    /\ prev.op = "power_key_was_pressed"
    /\ prev.status = "ok"
    /\ prev.ret = <<TRUE, FALSE>>
    /\ ~hwevents.seen
    /\ ret = <<FALSE, FALSE>>

----------------------------------------------------------------------------
(* Battery telemetry: is_battery_connected, battery_status, battery_voltage *)

\* Faulty variant of StatusCode: the field is shifted by 4 instead of 5.
StatusCode_Shift4(v) == ShiftRight(BitAnd(v, 96), 4)

\* The two-bit charging code in the byte read from register 0x01.
StatusCode(v) == ShiftRight(BitAnd(v, \h60), 5)

\* The BatteryStatus a charging code stands for; <<>> is None.
StatusOf(reg_val) ==
    IF reg_val = 0 THEN <<"STANDBY">>
    ELSE IF reg_val = 1 THEN <<"CHARGING">>
    ELSE IF reg_val = 2 THEN <<"DISCHARGING">>
    ELSE <<>>

\* is_battery_connected up to its bus transaction
IsBatteryConnected ==
    /\ BeginGet("is_battery_connected", 0)
    /\ loc' = NoLoc
    /\ CallRead(\h00, "read_connected", buf)
    /\ UNCHANGED <<regs, busLock, other, hwevents>>

\* battery_status up to its first bus transaction, the one of
\* self.is_battery_connected
BatteryStatus ==
    /\ BeginGet("battery_status", 0)
    /\ loc' = NoLoc
    /\ CallRead(\h00, "read_connected", buf)
    /\ UNCHANGED <<regs, busLock, other, hwevents>>

\* The rest of the caller once is_battery_connected has read register 0x00.
AfterReadConnected(v, b) ==
    LET connected == BitAnd(v, \h08) # 0
    IN  /\ loc' = loc
        /\ IF call.op = "battery_status"
           THEN IF ~connected
                THEN Return(<<>>, b)
                ELSE CallRead(\h01, "read_status", b)
           ELSE Return(<<connected>>, b)

\* reg_val = self._read_register8(0x00) of is_battery_connected
ReadConnected ==
    /\ pc = "read_connected"
    /\ \/ ReadRegister8 /\ AfterReadConnected(Received8[0], Received8)
       \/ BusError("read")
    /\ UNCHANGED <<call, pre, prev, ncalls, other, hwevents>>

AfterReadStatus(v, b) == loc' = loc /\ Return(StatusOf(StatusCode(v)), b)

\* reg_val = (self._read_register8(0x01) & 0b01100000) >> 5 and the mapping
\* of battery_status
ReadStatus ==
    /\ pc = "read_status"
    /\ \/ ReadRegister8 /\ AfterReadStatus(Received8[0], Received8)
       \/ BusError("read")
    /\ UNCHANGED <<call, pre, prev, ncalls, other, hwevents>>

\* battery_voltage up to its bus transaction
BatteryVoltage ==
    /\ BeginGet("battery_voltage", 0)
    /\ loc' = NoLoc
    /\ CallRead(\h34, "read_voltage", buf)
    /\ UNCHANGED <<regs, busLock, other, hwevents>>

AfterReadVoltage(v, b) == loc' = loc /\ Return(<<v>>, b)

\* return self._read_register14(0x34)
ReadVoltage ==
    /\ pc = "read_voltage"
    /\ \/ ReadRegister14
          /\ AfterReadVoltage(Compose14(Received14[0], Received14[1]), Received14)
       \/ BusError("read")
    /\ UNCHANGED <<call, pre, prev, ncalls, other, hwevents>>

\* Register contents found by the constructor: registers 0x00 and 0x01 hold
\* b0 and b1.
StatusChipState(b0, b1) ==
    [a \in Addrs |-> IF a = \h00 THEN b0 ELSE IF a = \h01 THEN b1 ELSE 0]

\* Bytes with bit 0x08 clear and set, alone and among all others.
ConnectedBytes == {\h00, \h08, \hF7, \hFF, \h04, \h10, \h0C}

InitStatus ==
    \E b0 \in ConnectedBytes, b1 \in Byte : Constructed(StatusChipState(b0, b1))

NextStatus ==
    \/ IsBatteryConnected
    \/ BatteryStatus
    \/ ReadConnected
    \/ ReadStatus

SpecStatus == InitStatus /\ [][NextStatus]_vars

\* Register contents found by the constructor: registers 0x34 and 0x35 hold
\* b0 and b1.
VoltageChipState(b0, b1) ==
    [a \in Addrs |-> IF a = \h34 THEN b0 ELSE IF a = \h35 THEN b1 ELSE 0]

InitVoltage ==
    \E b0 \in Byte, b1 \in Byte : Constructed(VoltageChipState(b0, b1))

NextVoltage ==
    \/ BatteryVoltage
    \/ ReadVoltage

SpecVoltage == InitVoltage /\ [][NextVoltage]_vars

\* C5: battery_status returns None whenever bit 0x08 of register 0x00 is
\* clear, whatever register 0x01 holds, and then reads nothing else; when
\* the bit is set the result is decided by bits 0x60 of register 0x01 alone:
\* 0 Standby, 1 Charging, 2 Discharging, 3 None; the call raises nothing
\* unless a bus transaction failed.
C5_BatteryStatus ==
    (Done /\ call.op = "battery_status") =>
        /\ status \in {"ok", "OSError"}
        /\ (status = "OSError") => ~log[Len(log)].ok
        /\ (status = "ok" /\ ~IsSet(regs[0], 8)) => (ret = <<>> /\ Len(log) = 1)
        /\ (status = "ok" /\ IsSet(regs[0], 8)) =>
              /\ Len(log) = 2
              /\ LET code == (regs[1] \div 32) % 4
                 IN  ret = CASE code = 0 -> <<"STANDBY">>
                             [] code = 1 -> <<"CHARGING">>
                             [] code = 2 -> <<"DISCHARGING">>
                             [] code = 3 -> <<>>

\* A connected battery whose register 0x01 holds 0xBF is charging.
C5_Witness ==
    /\ Done
    /\ call.op = "battery_status"
    /\ status = "ok"
    /\ regs[0] = 255
    /\ regs[1] = 191
    /\ ret = <<"CHARGING">>

\* C8: for every pair of bytes (b0, b1) in registers 0x34 and 0x35,
\* battery_voltage returns (b0 mod 64) * 256 + b1, a value in 0..16383 on
\* which the upper two bits of b0 have no influence; (0xFF, 0xAB) gives
\* 0x3FAB.
C8_Voltage14 ==
    (Done /\ call.op = "battery_voltage" /\ status = "ok") =>
        /\ ret = <<(regs[52] % 64) * 256 + regs[53]>>
        /\ ret[1] \in 0..16383
        /\ (regs[52] = 255 /\ regs[53] = 171) => ret = <<16299>>

\* The bytes (0xFF, 0xAB) read as 0x3FAB.
C8_Witness ==
    /\ Done
    /\ call.op = "battery_voltage"
    /\ status = "ok"
    /\ regs[52] = 255
    /\ regs[53] = 171
    /\ ret = <<16299>>

----------------------------------------------------------------------------
(* Read-modify-write on a shared bus: the constructor and the              *)
(* battery_charging_enabled setter run _set_bit_in_register while a second *)
(* user of the bus, which takes the same bus lock for each of its          *)
(* transactions, writes to the chip.                                        *)

\* AXP2101(i2c): self._buffer = bytearray(2), then the first of the three
\* _set_bit_in_register calls up to its bus transaction
New ==
    /\ pc = "new"
    /\ call' = [op |-> "__init__", num |-> 0, voltage |-> 0]
    /\ loc' = [bitmask |-> InitBits[1][2], value |-> TRUE, stage |-> 1]
    /\ CallSetBit(InitBits[1][1], Buffer(0, 0))
    /\ pre' = regs
    /\ log' = <<>>
    /\ UNCHANGED <<regs, busLock, prev, ncalls, other, hwevents>>

\* battery_charging_enabled = enabled, up to its bus transaction; enabled is
\* <<"bool", b>> for a boolean b and <<"int", n>> for an integer n
SetBatteryChargingEnabled(enabled) ==
    /\ Begin("battery_charging_enabled", 0, enabled)
    /\ IF enabled[1] = "bool"
       THEN /\ loc' = [bitmask |-> \h02, value |-> enabled[2], stage |-> 0]
            /\ CallSetBit(\h18, buf)
       ELSE loc' = NoLoc /\ Raise("ValueError", buf)
    /\ UNCHANGED <<regs, busLock, other, hwevents>>

\* The second user asks for the bus (I2CDevice.__enter__ spins on try_lock).
OtherRequest ==
    /\ other = "idle"
    /\ other' = "waiting"
    /\ UNCHANGED <<regs, buf, busLock, pc, call, loc, status, ret, log, pre,
                   prev, ncalls, hwevents>>

\* try_lock succeeds once the bus is free.
OtherLock ==
    /\ other = "waiting"
    /\ busLock = "free"
    /\ busLock' = "other"
    /\ other' = "locked"
    /\ UNCHANGED <<regs, buf, pc, call, loc, status, ret, log, pre, prev,
                   ncalls, hwevents>>

\* The second user writes a register and releases the bus.
OtherWrite(register, value) ==
    /\ other = "locked"
    /\ regs' = ChipWrite(regs, register, value)
    /\ busLock' = "free"
    /\ other' = "idle"
    /\ UNCHANGED <<buf, pc, call, loc, status, ret, log, pre, prev, ncalls,
                   hwevents>>

\* Register contents before construction: every register holds b.
RmwChipStates == {[a \in Addrs |-> b] : b \in {\h00, \hA5}}

\* Registers and bytes the second user writes.
OtherRegs == {\h18, \h90}

OtherBytes == {\h00, \hFF}

ChargingArgs == {<<"bool", TRUE>>, <<"bool", FALSE>>, <<"int", 1>>}

InitRmw ==
    /\ regs \in RmwChipStates
    /\ buf = Buffer(0, 0)
    /\ busLock = "free"
    /\ pc = "new"
    /\ call = NoCall
    /\ loc = NoLoc
    /\ status = "ok"
    /\ ret = <<>>
    /\ log = <<>>
    /\ pre = regs
    /\ prev = [op |-> "none", num |-> 0, voltage |-> 0, status |-> "ok", ret |-> <<>>]
    /\ ncalls = 0
    /\ other = "idle"
    /\ hwevents = [pending |-> FALSE, seen |-> FALSE]

NextRmw ==
    \/ New
    \/ \E enabled \in ChargingArgs : SetBatteryChargingEnabled(enabled)
    \/ SetBitRead
    \/ SetBitWrite
    \/ OtherRequest
    \/ OtherLock
    \/ \E register \in OtherRegs, value \in OtherBytes : OtherWrite(register, value)

SpecRmw == InitRmw /\ [][NextRmw]_vars

\* The byte with the bits of mask set (on) or cleared (not on) in old and
\* every other bit as in old.
Masked(old, mask, on) ==
    FromBits([i \in 0..15 |->
                 IF Bit(mask, i) = 1 THEN (IF on THEN 1 ELSE 0) ELSE Bit(old, i)])

\* C6: _set_bit_in_register is an atomic read-modify-write: from its read
\* to its write the driver holds the bus lock, the second user holds
\* nothing, the register still holds the byte that was read, and the byte
\* about to be written is that byte with the mask bits set (or cleared) and
\* every other bit kept; every write of the driver follows the read of the
\* same register and writes the byte so derived from it.
C6_AtomicRmw ==
    /\ (busLock = "other") <=> (other = "locked")
    /\ (busLock = "drv") <=> (pc = "set_bit_write")
    /\ (pc = "set_bit_write") =>
          /\ Len(log) >= 1
          /\ log[Len(log)] = BusOp("read", buf[0], regs[buf[0]], TRUE)
          /\ buf[1] = Masked(regs[buf[0]], loc.bitmask, loc.value)
    /\ \A i \in 1..Len(log) :
          (log[i].kind = "write") =>
              /\ i % 2 = 0
              /\ log[i - 1].kind = "read"
              /\ log[i - 1].ok
              /\ log[i - 1].register = log[i].register
              /\ IF call.op = "__init__"
                 THEN /\ log[i].register = <<65, 48, 144>>[i \div 2]
                      /\ log[i].value
                           = Masked(log[i - 1].value, <<12, 1, 15>>[i \div 2], TRUE)
                 ELSE /\ log[i].register = 24
                      /\ log[i].value = Masked(log[i - 1].value, 2, call.voltage[2])

\* The second user changed register 0x18 from 0x00 to 0xFF after the setter
\* was entered; the setter read 0xFF and wrote back 0xFD, keeping that
\* change but for the charging bit it clears.
C6_Witness ==
    /\ Done
    /\ call = [op |-> "battery_charging_enabled", num |-> 0,
               voltage |-> <<"bool", FALSE>>]
    /\ status = "ok"
    /\ pre[24] = 0
    /\ log = <<BusOp("read", 24, 255, TRUE), BusOp("write", 24, 253, TRUE)>>
    /\ regs[24] = 253

====
